---- MODULE Spec2Model ----
(***************************************************************************)
(* Request executor of go-api-http-client (http_request.go) with the      *)
(* backoff engine and the rate-limit header parser (http_rate_handler.go).*)
(* Durations and instants are in milliseconds.  Local computation takes   *)
(* no time; an HTTP send takes a latency chosen by the server and a       *)
(* time.Sleep lasts exactly the requested duration.                       *)
(***************************************************************************)
EXTENDS Integers, FiniteSets, Sequences, TLC

----------------------------------------------------------------------------
(* Bounds of the model *)

NumCalls == 2                   \* concurrent DoRequest callers under load
MaxConcurrentRequests == 1      \* ClientOptions.MaxConcurrentRequests of the client
RetryAttemptsBound == 2         \* MaxRetryAttempts is drawn from 0..RetryAttemptsBound
ShortRetryDuration == 1000      \* a short TotalRetryDuration (ms)
LongRetryDuration == 2500       \* a long TotalRetryDuration (ms)
SlowSend == 6000                \* latency of a slow HTTP send (ms)
RetryAfterBound == 2            \* Retry-After seconds are drawn from -1..RetryAfterBound
TokenLifetime == 1500           \* lifetime of a token the auth endpoint issues (ms)
TokenRefreshBufferPeriod == 1000 \* Timeout.TokenRefreshBufferPeriod (ms)
WindowSize == 1                 \* request outcomes the concurrency controller remembers

Calls == 1..NumCalls
SendLatencies == {0, SlowSend}
JitterPcts == {-50, 0, 49}      \* rand.Float64()-0.5 sampled in percent, in [-0.5, 0.5)

----------------------------------------------------------------------------
(* httpmethod: method sets of the dispatcher *)

Methods == {"GET", "PUT", "DELETE", "HEAD", "OPTIONS", "POST", "PATCH", "TRACE", "CONNECT"}

IsIdempotentHTTPMethod(m) == m \in {"GET", "PUT", "DELETE", "HEAD", "OPTIONS"}

IsNonIdempotentHTTPMethod(m) == m \in {"POST", "PATCH"}

RouteAllToRetry(m) == "retry"

RouteUnknownToSingle(m) ==
    IF IsIdempotentHTTPMethod(m) THEN "retry" ELSE "single"

\* DoRequest, lines 70-76: the path a method is dispatched to
Route(m) ==
    IF IsIdempotentHTTPMethod(m) THEN "retry"
    ELSE IF IsNonIdempotentHTTPMethod(m) THEN "single"
    ELSE "unsupported"

----------------------------------------------------------------------------
(* status: classification of a response status code *)

Statuses == {200, 302, 401, 404, 429, 500, 503}

TransientStatuses == {408, 425, 429, 500, 502, 503, 504}

\* lines 188 and 361: success and redirect statuses end the call successfully
IsSuccessStatus(code) == code >= 200 /\ code < 400

IsNonRetryableStatusCode(code) ==
    code >= 400 /\ code <= 599 /\ code \notin TransientStatuses

IsRateLimitError(code) == code = 429

IsTransientErrorServerOnly(code) == code \in {500, 502, 503, 504}

IsTransientError(code) == code \in TransientStatuses

IsRetryableStatusCode(code) == code \in TransientStatuses

----------------------------------------------------------------------------
(* http_rate_handler.go *)

baseDelay == 100
maxDelay == 5000
skewBuffer == 5000

\* math.Pow(2, n) in float64 never overflows; every power from 2^16 on is far beyond
\* what the cap lets through, so the model stops doubling there
Pow2(n) == IF n > 16 THEN 2 ^ 16 ELSE 2 ^ n

calculateBackoffFlat(retry, jitterPct) == baseDelay

calculateBackoffUncapped(retry, jitterPct) ==
    (baseDelay * Pow2(IF retry < 0 THEN 0 ELSE retry) * (100 + jitterPct)) \div 100

\* calculateBackoff: exponential delay with multiplicative jitter, capped at maxDelay
calculateBackoff(retry, jitterPct) ==
    LET r == IF retry < 0 THEN 0 ELSE retry
        delay == baseDelay * Pow2(r)
        delayWithJitter == (delay * (100 + jitterPct)) \div 100
    IN  IF delayWithJitter > maxDelay THEN maxDelay ELSE delayWithJitter

\* A header value as the parsers see it: absent, an integer (strconv.Atoi succeeds),
\* an RFC 1123 date (val is the instant in ms), or text that is neither.
Absent == [kind |-> "absent", val |-> 0]
IntHdr(n) == [kind |-> "int", val |-> n]
DateHdr(t) == [kind |-> "date", val |-> t]
Junk == [kind |-> "junk", val |-> 0]

NoHeaders == [retryAfter |-> Absent, remaining |-> "", reset |-> Absent]

RetryAfterSeconds(n) == [retryAfter |-> IntHdr(n), remaining |-> "", reset |-> Absent]

parseRateLimitHeadersResetFirst(h, t) ==
    IF h.remaining = "0" /\ h.reset.kind = "int"
    THEN (h.reset.val * 1000 - t) + skewBuffer
    ELSE IF h.retryAfter.kind = "int" THEN h.retryAfter.val * 1000
    ELSE IF h.retryAfter.kind = "date" THEN h.retryAfter.val - t
    ELSE 0

\* parseRateLimitHeaders: the wait advised by the response headers at instant t
parseRateLimitHeaders(h, t) ==
    IF h.retryAfter.kind = "int" THEN h.retryAfter.val * 1000
    ELSE IF h.retryAfter.kind = "date" THEN h.retryAfter.val - t
    ELSE IF h.remaining = "0" /\ h.reset.kind = "int"
         THEN (h.reset.val * 1000 - t) + skewBuffer
    ELSE 0

----------------------------------------------------------------------------
(* State *)

VARIABLES
    now,        \* time.Now(), ms
    cfg,        \* clientConfig.ClientOptions
    env,        \* the load and the server: callers, methods, responses, jitter, latencies
    held,       \* request IDs whose concurrency permit is held
    nextID,     \* next request ID of the concurrency handler
    metrics,    \* ConcurrencyHandler.Metrics
    controller, \* ConcurrencyHandler: the effective permit cap and its outcome window
    token,      \* AuthTokenHandler: the current token and the refresh in flight
    call,       \* per caller: the position and locals of its DoRequest call
    probe       \* one call of a helper function: its arguments and, once made, its result

vars == <<now, cfg, env, held, nextID, metrics, controller, token, call, probe>>

\* No helper call is being looked at
NoProbe == [fn |-> "none"]

Response(s, h) == [status |-> s, headers |-> h]
NoResp == Response(0, NoHeaders)
NoWait == [kind |-> "none", dur |-> 0, attempt |-> 0, wait |-> 0]

\* What one HTTP send can produce besides a transport error
ServerResponses ==
    {Response(s, NoHeaders) : s \in Statuses}
    \cup {Response(429, RetryAfterSeconds(n)) : n \in (-1)..RetryAfterBound}

\* One caller against a server that may answer anything
OneCaller ==
    [name |-> "OneCaller",
     callers |-> 1, methods |-> Methods, responses |-> ServerResponses,
     jitters |-> JitterPcts, latencies |-> SendLatencies, nilTransient |-> FALSE,
     cancels |-> FALSE]

\* NumCalls concurrent callers against a server with a few behaviours
UnderLoad ==
    [name |-> "UnderLoad",
     callers |-> NumCalls, methods |-> {"GET", "POST"},
     responses |-> {Response(200, NoHeaders), Response(503, NoHeaders)},
     jitters |-> {0}, latencies |-> {0}, nilTransient |-> FALSE,
     cancels |-> FALSE]

\* One caller who may give up while the call waits
Cancelling ==
    [name |-> "Cancelling",
     callers |-> 1, methods |-> {"GET", "POST"},
     responses |-> {Response(200, NoHeaders), Response(503, NoHeaders),
                    Response(429, RetryAfterSeconds(1))},
     jitters |-> {0}, latencies |-> SendLatencies, nilTransient |-> FALSE,
     cancels |-> TRUE]

\* NumCalls concurrent POST callers with a permit each, against a server that is fast
\* or slow and may rate-limit or fail
Adaptive ==
    [name |-> "Adaptive",
     callers |-> NumCalls, methods |-> {"POST"},
     responses |-> {Response(200, NoHeaders), Response(503, NoHeaders),
                    Response(429, NoHeaders)},
     jitters |-> {0}, latencies |-> SendLatencies, nilTransient |-> FALSE,
     cancels |-> FALSE]

\* httpclient_client_configuration.go, line 20: dynamic rate limiting is on by default
DefaultEnableDynamicRateLimiting == TRUE

Configs ==
    [MaxRetryAttempts : 0..RetryAttemptsBound,
     TotalRetryDuration : {ShortRetryDuration, LongRetryDuration},
     MaxConcurrentRequests : {MaxConcurrentRequests},
     EnableDynamicRateLimiting : {DefaultEnableDynamicRateLimiting}]

LoadConfig ==
    [MaxRetryAttempts |-> 1, TotalRetryDuration |-> ShortRetryDuration,
     MaxConcurrentRequests |-> MaxConcurrentRequests,
     EnableDynamicRateLimiting |-> DefaultEnableDynamicRateLimiting]

AdaptiveConfigs ==
    {[LoadConfig EXCEPT !.MaxConcurrentRequests = NumCalls,
                        !.EnableDynamicRateLimiting = b] : b \in BOOLEAN}

IdleCall ==
    [pc |-> "idle", path |-> "none", method |-> "",
     requestID |-> 0, deferred |-> FALSE, deadline |-> 0, retryCount |-> 0,
     resp |-> NoResp, err |-> FALSE, until |-> 0, startTime |-> 0,
     result |-> [resp |-> 0, err |-> "none"],
     \* history of the call, for the properties
     cancelled |-> FALSE, refreshed |-> 0, seen |-> 0, checkedAt |-> 0, authExpiry |-> 0,
     checked |-> 0, acquired |-> 0, released |-> 0, releasedID |-> 0,
     sends |-> 0, rateWaits |-> 0, backoffs |-> 0, every |-> 0,
     lastWait |-> NoWait, ended |-> 0, expired |-> FALSE,
     \* the request body: what is left to read of req.Body, what the first and the
     \* last send transmitted
     unread |-> "", firstSent |-> "", lastSent |-> "",
     \* response bodies: obtained from a send, closed by the call
     bodies |-> 0, closed |-> 0]

\* nilTransient: whether the status helpers classify a missing response as transient
Init ==
    /\ now = 0
    /\ \/ /\ cfg \in Configs
          /\ env \in {[OneCaller EXCEPT !.nilTransient = b] : b \in BOOLEAN}
       \/ /\ cfg = LoadConfig
          /\ env \in {UnderLoad, Cancelling}
       \/ /\ cfg \in AdaptiveConfigs
          /\ env = Adaptive
    /\ held = {}
    /\ nextID = 1
    /\ metrics = [TotalRequests |-> 0, Evaluations |-> 0]
    /\ controller = [cap |-> cfg.MaxConcurrentRequests, window |-> <<>>]
    /\ token = [id |-> 0, expiry |-> 0, inFlight |-> FALSE, calls |-> 0]
    /\ call = [c \in Calls |-> IdleCall]
    /\ probe = NoProbe

----------------------------------------------------------------------------
(* Concurrency handler: a counting semaphore of MaxConcurrentRequests permits, of
   which the effective cap admits controller.cap at a time *)

PermitAvailable == Cardinality(held) < controller.cap

\* What the controller remembers of one completed request
Outcome(status, duration) ==
    [rateLimited |-> status = 429, failed |-> status >= 400, duration |-> duration]

\* The sliding window keeps the last WindowSize outcomes
Slide(window, entry) ==
    LET w == Append(window, entry)
    IN  IF Len(w) > WindowSize THEN SubSeq(w, Len(w) - WindowSize + 1, Len(w)) ELSE w

\* The long-run baseline the window's durations are compared with
BaselineDuration == SlowSend

\* The 95th percentile of a window of fewer than 20 durations is its maximum
P95Duration(w) ==
    LET ds == {w[i].duration : i \in DOMAIN w}
    IN  CHOOSE d \in ds : \A e \in ds : e <= d

ShrinkNoFloor(cap, pct) == (cap * (100 - pct)) \div 100

\* Shrink the cap by pct percent, never below one permit
Shrink(cap, pct) ==
    LET n == (cap * (100 - pct)) \div 100
    IN  IF n < 1 THEN 1 ELSE n

\* Grow the cap by one permit, never above max-concurrent-requests
Grow(cap) == IF cap < cfg.MaxConcurrentRequests THEN cap + 1 ELSE cap

\* The resizing rules over a non-empty window
AdjustedCap(cap, w) ==
    LET n == Len(w)
        limited == Cardinality({i \in DOMAIN w : w[i].rateLimited})
        failed == Cardinality({i \in DOMAIN w : w[i].failed})
    IN  IF limited * 10 > n THEN Shrink(cap, 25)
        ELSE IF failed * 5 > n THEN Shrink(cap, 10)
        ELSE IF P95Duration(w) * 2 < BaselineDuration /\ failed * 100 < n THEN Grow(cap)
        ELSE cap

PolicyAlwaysActive == TRUE

\* The dynamic policy is active only when enable-dynamic-rate-limiting is set
PolicyActive == cfg.EnableDynamicRateLimiting

\* EvaluateAndAdjustConcurrency(resp, duration): observe the outcome, adjust the cap
EvaluateAndAdjustConcurrency(ctl, status, duration) ==
    IF PolicyActive
    THEN LET w == Slide(ctl.window, Outcome(status, duration))
         IN  [cap |-> AdjustedCap(ctl.cap, w), window |-> w]
    ELSE ctl

----------------------------------------------------------------------------
(* Auth token handler: the current token, refreshed by one network call at a time *)

\* The token's remaining lifetime at instant t is not below the refresh buffer
TokenFresh(t) == token.id > 0 /\ token.expiry - t >= TokenRefreshBufferPeriod

NeverAwaits(rec) == FALSE

\* A caller that needs the token while a refresh is in flight waits on its completion
AwaitsRefresh(rec) == token.inFlight

ReleaseOnSuccessOnly(rec, errKind) ==
    IF rec.deferred /\ errKind = "none"
    THEN [rec EXCEPT !.released = @ + 1, !.releasedID = rec.requestID]
    ELSE rec

\* lines 138-140 and 304-306: the deferred ReleaseConcurrencyPermit(requestID) runs
\* once when the function exits, whatever the exit
RunDeferred(rec, errKind) ==
    IF rec.deferred
    THEN [rec EXCEPT !.released = @ + 1, !.releasedID = rec.requestID]
    ELSE rec

\* A return (or panic) of the call at instant t with (response status or 0 for nil, error);
\* the locals of the call are gone
Return(rec, respStatus, errKind, t) ==
    [RunDeferred(rec, errKind) EXCEPT
        !.pc = "done", !.result = [resp |-> respStatus, err |-> errKind], !.ended = t,
        !.until = 0, !.startTime = 0, !.resp = NoResp, !.err = FALSE, !.unread = ""]

HeldAfter(old, new) ==
    IF new.released > old.released THEN held \ {new.releasedID} ELSE held

NeverBlocked(rec) == FALSE

\* lines 131-135 and 297-301: the call waits in AcquireConcurrencyPermit for a free
\* permit before it marshals or sends anything
BlockedInAcquire(rec) == ~PermitAvailable

----------------------------------------------------------------------------
(* Actions *)

\* DoRequest, lines 67-77: dispatch on the method
DoRequest(c) ==
    /\ call[c].pc = "idle"
    /\ c <= env.callers
    /\ \E m \in env.methods :
        call' = [call EXCEPT ![c] =
            IF Route(m) = "unsupported"
            THEN Return([@ EXCEPT !.method = m, !.path = "unsupported"], 0, "Unsupported", now)
            ELSE [@ EXCEPT !.pc = "check", !.method = m, !.path = Route(m)]]
    /\ UNCHANGED <<now, cfg, env, held, nextID, metrics, controller, token, probe>>

\* lines 126 and 292: CheckAndRefreshAuthToken is called; a fresh token is valid at
\* once, a stale one starts the refresh call to the auth endpoint
CheckAndRefreshAuthToken(c) ==
    /\ call[c].pc = "check"
    /\ ~AwaitsRefresh(call[c])
    /\ IF TokenFresh(now)
       THEN /\ call' = [call EXCEPT ![c] =
                           [@ EXCEPT !.pc = "acquire", !.checked = @ + 1,
                                     !.seen = token.id, !.checkedAt = now]]
            /\ token' = token
       ELSE /\ call' = [call EXCEPT ![c] = [@ EXCEPT !.pc = "refreshing", !.refreshed = @ + 1]]
            /\ token' = [token EXCEPT !.inFlight = TRUE, !.calls = @ + 1]
    /\ UNCHANGED <<now, cfg, env, held, nextID, metrics, controller, probe>>

\* lines 126-129 and 292-295: the refresh ends and CheckAndRefreshAuthToken returns
\* (valid, err)
RefreshReturns(c) ==
    /\ call[c].pc = "refreshing"
    /\ \E outcome \in {"valid", "error", "invalid"} :
        LET rec == [call[c] EXCEPT !.checked = @ + 1, !.checkedAt = now]
        IN  /\ call' = [call EXCEPT ![c] =
                    CASE outcome = "valid" -> [rec EXCEPT !.pc = "acquire", !.seen = token.id + 1]
                      [] outcome = "error" -> Return(rec, 0, "Auth", now)
                      [] outcome = "invalid" -> Return(rec, 0, "none", now)]
            /\ token' = IF outcome = "valid"
                        THEN [token EXCEPT !.id = @ + 1, !.expiry = now + TokenLifetime,
                                           !.inFlight = FALSE]
                        ELSE [token EXCEPT !.inFlight = FALSE]
    /\ UNCHANGED <<now, cfg, env, held, nextID, metrics, controller, probe>>

\* AcquireConcurrencyPermit succeeded: the permit, the request ID and the defer
Acquired(rec) ==
    [rec EXCEPT !.requestID = nextID, !.deferred = TRUE, !.acquired = @ + 1]

\* lines 166-167 and 330-331: SetRequestHeaders stamps the Authorization header with
\* the token the handler holds now
SetRequestHeaders(rec) == [rec EXCEPT !.authExpiry = token.expiry]

\* lines 143 and 312: MarshalRequest(body, method, endpoint); the callers give PUT,
\* POST and PATCH a body and the other methods none
MarshalRequest(method) == IF method \in {"PUT", "POST", "PATCH"} THEN "payload" ELSE ""

\* lines 157 and 321: http.NewRequest(method, url, bytes.NewBuffer(requestData)); the
\* request reads its body from the buffer
NewRequest(rec) == [rec EXCEPT !.unread = MarshalRequest(rec.method)]

\* c.do is called: the request is in flight until the server answers; the transport
\* transmits what it reads from req.Body
StartSend(rec, latency, t) ==
    [rec EXCEPT !.pc = "sending", !.until = t + latency, !.startTime = t, !.sends = @ + 1,
                !.lastSent = rec.unread,
                !.firstSent = IF rec.sends = 0 THEN rec.unread ELSE @]

\* A response has come back: the transport has read req.Body to its end, and the
\* response's body is open
Answered(rec) == [rec EXCEPT !.unread = "", !.bodies = @ + 1]

\* executeRequestWithRetries, lines 131-174: permit, marshal, TotalRequests++,
\* http.NewRequest, headers, totalRetryDeadline
AcquireRetry(c) ==
    /\ call[c].pc = "acquire" /\ call[c].path = "retry"
    /\ ~BlockedInAcquire(call[c])
    /\ \E outcome \in {"marshal fails", "request fails", "ok"} :
        LET rec == Acquired(call[c])
            new == IF outcome = "marshal fails" THEN Return(rec, 0, "Marshal", now)
                   ELSE IF outcome = "request fails" THEN Return(rec, 0, "Request", now)
                   ELSE [SetRequestHeaders(NewRequest(rec)) EXCEPT
                                    !.pc = "loop",
                                    !.deadline = now + cfg.TotalRetryDuration,
                                    !.retryCount = 0]
        IN  /\ call' = [call EXCEPT ![c] = new]
            /\ held' = (IF new.pc = "done" THEN held ELSE held \cup {nextID})
            /\ metrics' = [metrics EXCEPT !.TotalRequests =
                              IF outcome = "marshal fails" THEN @ ELSE @ + 1]
    /\ nextID' = nextID + 1
    /\ UNCHANGED <<now, cfg, env, controller, token, probe>>

\* executeRequest, lines 297-343: permit, marshal, http.NewRequest, headers, c.do
AcquireSingle(c) ==
    /\ call[c].pc = "acquire" /\ call[c].path = "single"
    /\ ~BlockedInAcquire(call[c])
    /\ \E new \in {Return(Acquired(call[c]), 0, "Marshal", now),
                    Return(Acquired(call[c]), 0, "Request", now)}
                   \cup {StartSend(SetRequestHeaders(NewRequest(Acquired(call[c]))),
                                    latency, now) :
                            latency \in env.latencies} :
        /\ call' = [call EXCEPT ![c] = new]
        /\ held' = (IF new.pc = "done" THEN held ELSE held \cup {nextID})
    /\ nextID' = nextID + 1
    /\ UNCHANGED <<now, cfg, env, metrics, controller, token, probe>>

LoopGuardLate(t, deadline) == t < deadline + 10000

\* line 175: for time.Now().Before(totalRetryDeadline)
LoopGuard(t, deadline) == t < deadline

\* lines 238-243: after the loop
AfterLoop(rec, t) ==
    IF rec.err THEN Return(rec, 0, "Transport", t)
    ELSE Return(rec, rec.resp.status, "APIError", t)

LoopHeadNoExit(c) ==
    /\ call[c].pc = "loop"
    /\ LoopGuard(now, call[c].deadline)
    /\ \E latency \in env.latencies :
          call' = [call EXCEPT ![c] = StartSend(call[c], latency, now)]
    /\ UNCHANGED <<now, cfg, env, held, nextID, metrics, controller, token, probe>>

\* lines 175-182: the loop test and, inside the loop, c.do
LoopHead(c) ==
    /\ call[c].pc = "loop"
    /\ \E new \in IF LoopGuard(now, call[c].deadline)
                   THEN {StartSend(call[c], latency, now) : latency \in env.latencies}
                   ELSE {AfterLoop([call[c] EXCEPT !.expired = TRUE], now)} :
        /\ call' = [call EXCEPT ![c] = new]
        /\ held' = HeldAfter(call[c], new)
    /\ UNCHANGED <<now, cfg, env, nextID, metrics, controller, token, probe>>

\* lines 210 and 224: time.Sleep(dur) is called
Sleep(rec, kind, dur, t) ==
    [rec EXCEPT !.pc = "sleeping", !.until = t + dur,
                !.rateWaits = IF kind = "ratelimit" THEN @ + 1 ELSE @,
                !.backoffs = IF kind = "backoff" THEN @ + 1 ELSE @,
                !.lastWait.kind = kind, !.lastWait.dur = dur,
                !.lastWait.attempt = rec.retryCount]

\* line 208: a rate-limit wait is taken when the parsed wait is positive
RateLimitWaitTaken(waitDuration) == waitDuration > 0

RetriesExhaustedLate(retryCount) == retryCount > cfg.MaxRetryAttempts + 1

\* line 218: retryCount > MaxRetryAttempts
RetriesExhausted(retryCount) == retryCount > cfg.MaxRetryAttempts

\* lines 215-226: retryCount++, then break or sleep the backoff delay
BackoffOrBreak(rec, jitterPct, t) ==
    LET counted == [rec EXCEPT !.retryCount = @ + 1]
    IN  IF RetriesExhausted(counted.retryCount)
        THEN AfterLoop(counted, t)
        ELSE Sleep(counted, "backoff", calculateBackoff(counted.retryCount, jitterPct), t)

OnNonRetryableDropsResponse(rec, code, t) == Return(rec, 0, "APIError", t)

\* lines 200-203: a non-retryable status returns the response and the decoded error
OnNonRetryable(rec, code, t) == Return(rec, code, "APIError", t)

\* The status every send of the call has returned so far (0: no send yet, -1: not one status)
Every(rec, status) ==
    IF rec.sends = 1 \/ rec.every = status THEN status ELSE -1

\* lines 187-236 with a response: what the loop body does after c.do returned resp;
\* decodeOk: whether HandleAPISuccessResponse could decode the body into out
OnResponse(rec0, resp, jitterPct, decodeOk, t) ==
    LET code == resp.status
        waitDuration == parseRateLimitHeaders(resp.headers, t)
        rec == [Answered(rec0) EXCEPT !.resp = resp, !.err = FALSE,
                                      !.every = Every(rec0, code),
                                      !.lastWait.wait = waitDuration]
    IN  IF IsSuccessStatus(code)
        THEN Return(rec, code, IF decodeOk THEN "none" ELSE "Decode", t)
        ELSE IF IsNonRetryableStatusCode(code) THEN OnNonRetryable(rec, code, t)
        ELSE IF IsRateLimitError(code) /\ RateLimitWaitTaken(waitDuration)
             THEN Sleep(rec, "ratelimit", waitDuration, t)
        ELSE IF IsTransientError(code) THEN BackoffOrBreak(rec, jitterPct, t)
        ELSE IF ~IsRetryableStatusCode(code) THEN Return(rec, 0, "APIError", t)
        ELSE [rec EXCEPT !.pc = "loop"]

\* lines 187-236 with a transport error (resp = nil, err # nil): the status helpers
\* either take the missing response as transient or not; if not, line 230 hands the
\* nil response to handleAPIErrorResponse, which dereferences it
OnTransportError(rec0, jitterPct, t) ==
    LET rec == [rec0 EXCEPT !.resp = NoResp, !.err = TRUE, !.every = -1,
                            !.lastWait.wait = 0]
    IN  IF env.nilTransient THEN BackoffOrBreak(rec, jitterPct, t)
        ELSE Return(rec, 0, "panic", t)

\* executeRequestWithRetries, lines 182-236: c.do returns and the loop body runs
RespondRetry(c) ==
    /\ call[c].pc = "sending" /\ call[c].path = "retry"
    /\ call[c].until = now
    /\ \E new \in {OnResponse(call[c], r, jitterPct, decodeOk, now) :
                        r \in env.responses, jitterPct \in env.jitters, decodeOk \in BOOLEAN}
                   \cup {OnTransportError(call[c], jitterPct, now) : jitterPct \in env.jitters} :
            /\ call' = [call EXCEPT ![c] = new]
            /\ held' = HeldAfter(call[c], new)
    /\ UNCHANGED <<now, cfg, env, nextID, metrics, controller, token, probe>>

\* executeRequest, lines 360-371: the status of the only response decides
OnSingleResponse(rec, resp, decodeOk, t) ==
    LET got == [Answered(rec) EXCEPT !.every = resp.status]
    IN  IF IsSuccessStatus(resp.status)
        THEN Return(got, resp.status, IF decodeOk THEN "none" ELSE "Decode", t)
        ELSE Return(got, 0, "APIError", t)

\* executeRequest, lines 343-371: c.do returns; no retry
RespondSingle(c) ==
    /\ call[c].pc = "sending" /\ call[c].path = "single"
    /\ call[c].until = now
    \* line 344 returns before EvaluateAndAdjustConcurrency (line 352)
    /\ \E o \in {[new |-> Return([call[c] EXCEPT !.every = -1], 0, "Transport", now),
                    ctl |-> controller, evaluations |-> 0]}
                 \cup {[new |-> OnSingleResponse(call[c], r, decodeOk, now),
                        ctl |-> EvaluateAndAdjustConcurrency(
                                    controller, r.status, now - call[c].startTime),
                        evaluations |-> 1] :
                            r \in env.responses, decodeOk \in BOOLEAN} :
        /\ call' = [call EXCEPT ![c] = o.new]
        /\ held' = HeldAfter(call[c], o.new)
        /\ controller' = o.ctl
        /\ metrics' = [metrics EXCEPT !.Evaluations = @ + o.evaluations]
    /\ UNCHANGED <<now, cfg, env, nextID, token, probe>>

\* lines 210 and 224: time.Sleep returns
Wake(c) ==
    /\ call[c].pc = "sleeping"
    /\ call[c].until = now
    /\ call' = [call EXCEPT ![c].pc = "loop"]
    /\ UNCHANGED <<now, cfg, env, held, nextID, metrics, controller, token, probe>>

\* The caller gives up while its call waits for a permit, a response or a sleep.
\* DoRequest (line 67) takes no context and lines 132 and 298 hand
\* context.Background() to the acquire, so nothing in the call learns of it.
CallerCancels(c) ==
    /\ env.cancels
    /\ call[c].pc \in {"acquire", "sending", "sleeping"}
    /\ ~call[c].cancelled
    /\ call' = [call EXCEPT ![c].cancelled = TRUE]
    /\ UNCHANGED <<now, cfg, env, held, nextID, metrics, controller, token, probe>>

\* A call that can take a step without time passing
Urgent(c) ==
    \/ call[c].pc \in {"loop", "refreshing"}
    \/ call[c].pc = "check" /\ ~AwaitsRefresh(call[c])
    \/ call[c].pc = "acquire" /\ ~BlockedInAcquire(call[c])
    \/ call[c].pc \in {"sending", "sleeping"} /\ call[c].until <= now

Pending == {call[c].until : c \in {d \in Calls : call[d].pc \in {"sending", "sleeping"}}}

\* Time passes up to the next completion of a send or a sleep
Advance ==
    /\ \A c \in Calls : ~Urgent(c)
    /\ Pending # {}
    /\ now' = CHOOSE t \in Pending : \A u \in Pending : t <= u
    /\ UNCHANGED <<cfg, env, held, nextID, metrics, controller, token, call, probe>>

Next ==
    \/ \E c \in Calls : DoRequest(c)
    \/ \E c \in Calls : CheckAndRefreshAuthToken(c)
    \/ \E c \in Calls : RefreshReturns(c)
    \/ \E c \in Calls : AcquireRetry(c)
    \/ \E c \in Calls : AcquireSingle(c)
    \/ \E c \in Calls : LoopHead(c)
    \/ \E c \in Calls : RespondRetry(c)
    \/ \E c \in Calls : RespondSingle(c)
    \/ \E c \in Calls : Wake(c)
    \/ \E c \in Calls : CallerCancels(c)
    \/ Advance

Spec == Init /\ [][Next]_vars

----------------------------------------------------------------------------
(* Termination: the calls against a server that keeps rate-limiting and failing *)

\* One caller; the server may answer every send with a 429 (with or without
\* Retry-After) or a 503, or any alternation of them, and a send may fail
Persistent ==
    [name |-> "Persistent",
     callers |-> 1, methods |-> {"GET", "POST"},
     responses |-> {Response(200, NoHeaders), Response(503, NoHeaders),
                    Response(429, NoHeaders), Response(429, RetryAfterSeconds(1))},
     jitters |-> {0}, latencies |-> SendLatencies, nilTransient |-> TRUE,
     cancels |-> TRUE]

InitTermination ==
    /\ now = 0
    /\ cfg \in Configs
    /\ env = Persistent
    /\ held = {}
    /\ nextID = 1
    /\ metrics = [TotalRequests |-> 0, Evaluations |-> 0]
    /\ controller = [cap |-> cfg.MaxConcurrentRequests, window |-> <<>>]
    /\ token = [id |-> 0, expiry |-> 0, inFlight |-> FALSE, calls |-> 0]
    /\ call = [c \in Calls |-> IdleCall]
    /\ probe = NoProbe

\* The steps of one call once DoRequest has been entered
CallStep(c) ==
    \/ CheckAndRefreshAuthToken(c)
    \/ RefreshReturns(c)
    \/ AcquireRetry(c)
    \/ AcquireSingle(c)
    \/ LoopHead(c)
    \/ RespondRetry(c)
    \/ RespondSingle(c)
    \/ Wake(c)

\* Every HTTP send and every token refresh returns, a goroutine that can run does
\* run, and the clock advances
Fairness ==
    /\ WF_vars(Advance)
    /\ \A c \in Calls : WF_vars(CallStep(c))

SpecTermination == InitTermination /\ [][Next]_vars /\ Fairness

----------------------------------------------------------------------------
(* Properties *)

Done(c) == call[c].pc = "done"
OnRetryPath(c) == call[c].path = "retry"
InFlight == {c \in Calls : call[c].pc = "sending"}

RECURSIVE SumSends(_)
SumSends(S) ==
    IF S = {} THEN 0
    ELSE LET c == CHOOSE x \in S : TRUE IN call[c].sends + SumSends(S \ {c})

\* C1: DoRequest sends GET, PUT, DELETE, HEAD and OPTIONS to the retry path, POST and
\* PATCH to the single-shot path, and fails every other method at once with an
\* unsupported-method error: no token check, no permit, no send.
C1_Dispatch ==
    \A c \in Calls : call[c].pc # "idle" =>
        /\ call[c].method \in {"GET", "PUT", "DELETE", "HEAD", "OPTIONS"}
              => call[c].path = "retry"
        /\ call[c].method \in {"POST", "PATCH"} => call[c].path = "single"
        /\ call[c].method \notin {"GET", "PUT", "DELETE", "HEAD", "OPTIONS", "POST", "PATCH"}
              => /\ Done(c)
                 /\ call[c].result = [resp |-> 0, err |-> "Unsupported"]
                 /\ call[c].checked = 0 /\ call[c].acquired = 0 /\ call[c].sends = 0

C1_Witness ==
    \E c \in Calls : Done(c) /\ call[c].method = "TRACE" /\ call[c].result.err = "Unsupported"

\* C2: on both paths and on every exit, the permit a call acquired is released exactly
\* once, with the request ID it was acquired under, and not before the call ends; once
\* the calls have drained no permit is held.
C2_PermitReleasedOnce ==
    /\ \A c \in Calls :
        /\ call[c].acquired <= 1 /\ call[c].released <= call[c].acquired
        /\ Done(c) => /\ call[c].released = call[c].acquired
                      /\ call[c].acquired = 1 => call[c].releasedID = call[c].requestID
        /\ ~Done(c) /\ call[c].acquired = 1
              => call[c].released = 0 /\ call[c].requestID \in held
    /\ held = {call[c].requestID : c \in {d \in Calls : call[d].acquired > call[d].released}}
    /\ (\A c \in Calls : call[c].pc \in {"idle", "done"}) => held = {}

C2_Witness ==
    \E c, d \in Calls :
        /\ Done(c) /\ call[c].acquired = 1 /\ call[c].result.err = "panic"
        /\ Done(d) /\ call[d].acquired = 1 /\ call[d].result.err = "APIError"
        /\ call[d].backoffs > 0 /\ held = {}

\* C3: the sends in flight never exceed MaxConcurrentRequests, and every send in flight
\* belongs to a call that holds a permit.
C3_BoundedInFlight ==
    /\ Cardinality(InFlight) <= cfg.MaxConcurrentRequests
    /\ Cardinality(held) <= cfg.MaxConcurrentRequests
    /\ \A c \in InFlight : call[c].requestID \in held /\ call[c].released = 0

C3_Witness ==
    \E c, d \in Calls :
        /\ call[c].pc = "acquire" /\ call[d].pc = "sending"
        /\ Cardinality(held) = cfg.MaxConcurrentRequests

\* C4: a POST or PATCH call sends at most once and never waits; a 503, a 429 (with or
\* without rate-limit headers) or a transport failure ends it with an error and the
\* permit released.
C4_SingleShotSendsOnce ==
    \A c \in Calls : call[c].method \in {"POST", "PATCH"} =>
        /\ call[c].sends <= 1
        /\ call[c].rateWaits = 0 /\ call[c].backoffs = 0 /\ call[c].pc # "sleeping"
        /\ Done(c) /\ call[c].sends = 1 /\ call[c].every \in {503, 429, -1}
              => /\ call[c].result.err \in {"APIError", "Transport"}
                 /\ call[c].released = 1 /\ call[c].requestID \notin held

C4_Witness ==
    \E c \in Calls :
        /\ Done(c) /\ call[c].method = "POST" /\ call[c].every = 503
        /\ call[c].sends = 1 /\ call[c].result.err = "APIError" /\ call[c].released = 1

\* C5: on the retry path the attempt counter is incremented once per backoff, no send
\* or sleep happens once it has exceeded MaxRetryAttempts, and with MaxRetryAttempts = 0
\* a transient status is not re-sent.
C5_RetryAttemptsBounded ==
    \A c \in Calls : OnRetryPath(c) =>
        /\ call[c].retryCount <= cfg.MaxRetryAttempts + 1
        /\ call[c].backoffs <= cfg.MaxRetryAttempts
        /\ ~Done(c) => /\ call[c].retryCount = call[c].backoffs
                       /\ call[c].retryCount <= cfg.MaxRetryAttempts
        /\ Done(c) => call[c].retryCount \in {call[c].backoffs, call[c].backoffs + 1}
        /\ cfg.MaxRetryAttempts = 0 /\ call[c].every \in {500, 503} => call[c].sends <= 1

C5_Witness ==
    \E c \in Calls :
        /\ Done(c) /\ OnRetryPath(c) /\ cfg.MaxRetryAttempts = RetryAttemptsBound
        /\ call[c].backoffs = cfg.MaxRetryAttempts
        /\ call[c].retryCount = cfg.MaxRetryAttempts + 1

\* C6 (as claimed): a retry-path call makes at most MaxRetryAttempts + 1 sends, whatever
\* the server answers.
C6_SendsBoundedByCount ==
    \A c \in Calls : OnRetryPath(c) => call[c].sends <= cfg.MaxRetryAttempts + 1

\* C7: when every send of an idempotent call is answered 500 (or 503), retry k is
\* preceded by a backoff wait within the jitter range of delay(k), and a call whose
\* deadline is not reached ends after exactly MaxRetryAttempts + 1 sends with an
\* APIError and the last response.
C7_PersistentTransient ==
    \A c \in Calls : OnRetryPath(c) /\ call[c].every \in {500, 503} =>
        /\ call[c].rateWaits = 0
        /\ call[c].pc = "sleeping" =>
              /\ call[c].lastWait.kind = "backoff"
              /\ call[c].lastWait.attempt = call[c].sends
              /\ call[c].backoffs = call[c].sends
              /\ 2 * call[c].lastWait.dur >= baseDelay * Pow2(call[c].sends)
              /\ 2 * call[c].lastWait.dur <= 3 * baseDelay * Pow2(call[c].sends)
        /\ call[c].pc = "sending" => call[c].sends = call[c].backoffs + 1
        /\ Done(c) /\ ~call[c].expired =>
              /\ call[c].sends = cfg.MaxRetryAttempts + 1
              /\ call[c].backoffs = cfg.MaxRetryAttempts
              /\ call[c].result = [resp |-> call[c].every, err |-> "APIError"]

C7_Witness ==
    \E c \in Calls :
        /\ Done(c) /\ OnRetryPath(c) /\ call[c].every = 500 /\ ~call[c].expired
        /\ cfg.MaxRetryAttempts = RetryAttemptsBound
        /\ call[c].sends = RetryAttemptsBound + 1

\* C8 (as claimed): no rate-limit or backoff sleep of a retry-path call ends after the
\* deadline computed when the call was prepared.
C8_NoSleepPastDeadline ==
    \A c \in Calls : call[c].pc = "sleeping" => call[c].until <= call[c].deadline

C10_RateLimitFirst ==
    \A c \in Calls : call[c].pc = "sleeping" /\ call[c].resp.status = 429 =>
        /\ call[c].lastWait.wait > 0 =>
              /\ call[c].lastWait.kind = "ratelimit"
              /\ call[c].lastWait.dur >= call[c].lastWait.wait
              /\ call[c].retryCount = call[c].backoffs
        /\ call[c].lastWait.kind = "backoff" =>
              /\ call[c].lastWait.wait = 0
              /\ call[c].retryCount = call[c].backoffs

\* C11 (as claimed): a retry-path call whose sends are all answered 401 refreshes the
\* token after the first 401, so it ends with a second token check behind it: either
\* the refresh failed, or the request was sent a second time and no more.
C11_AuthExpiredRefreshesOnce ==
    \A c \in Calls : OnRetryPath(c) /\ Done(c) /\ call[c].every = 401 =>
        /\ call[c].checked = 2
        /\ call[c].sends = 2 \/ call[c].result.err = "Auth"

\* C12 (as claimed): whenever a call sends, the token stamped in its Authorization
\* header has not expired, and a call whose token check failed never sends.
C12_NoSendWithExpiredToken ==
    [][\A c \in Calls :
          /\ call'[c].sends > call[c].sends => now < call'[c].authExpiry
          /\ call'[c].result.err = "Auth" => call'[c].sends = 0]_vars

\* C13: at most one refresh call to the auth endpoint is in flight at any time, and of
\* the callers that pass the token check in the same instant at most one made a
\* refresh call and all of them go on with the same token.
C13_RefreshCoalesced ==
    /\ Cardinality({c \in Calls : call[c].pc = "refreshing"}) <= 1
    /\ token.inFlight <=> \E c \in Calls : call[c].pc = "refreshing"
    /\ \A c, d \in Calls :
          /\ c # d /\ call[c].seen > 0 /\ call[d].seen > 0
          /\ call[c].checkedAt = call[d].checkedAt
          => /\ call[c].seen = call[d].seen
             /\ call[c].refreshed + call[d].refreshed <= 1

C13_Witness ==
    \E c, d \in Calls :
        /\ c # d /\ call[c].seen = 1 /\ call[d].seen = 1
        /\ call[c].checkedAt = call[d].checkedAt
        /\ call[c].refreshed = 1 /\ call[d].refreshed = 0
        /\ token.calls = 1 /\ token.id = 1

\* C14 (as claimed): once the caller has cancelled, the call starts no send and no
\* sleep, and when it ends it has released its permit and returns a Cancelled error.
C14_CancellationHonoured ==
    [][\A c \in Calls : call[c].cancelled =>
          /\ call'[c].sends = call[c].sends
          /\ call'[c].rateWaits = call[c].rateWaits
          /\ call'[c].backoffs = call[c].backoffs
          /\ call'[c].pc = "done" =>
                /\ call'[c].result.err = "Cancelled"
                /\ call'[c].released = call'[c].acquired]_vars

\* C15 (as claimed): a retry-path call never panics on the missing response of a failed
\* send; it is re-sent after a backoff or, with the budget used up, ends with the
\* transport error.
C15_TransportFailureRetried ==
    \A c \in Calls : OnRetryPath(c) =>
        /\ call[c].result.err # "panic"
        /\ call[c].err => \/ call[c].pc = "sleeping" /\ call[c].lastWait.kind = "backoff"
                          \/ call[c].pc \in {"loop", "sending"}

\* C16 (as claimed): TotalRequests counts every call that acquired a permit, on both
\* paths and whatever the call's outcome.
C16_TotalRequestsCountsCalls ==
    metrics.TotalRequests = Cardinality({c \in Calls : call[c].acquired = 1})

\* C17 (as claimed): once the calls have returned, the concurrency controller has
\* evaluated every send that was made, one evaluation per send.
C17_EverySendEvaluated ==
    (\A c \in Calls : call[c].pc \in {"idle", "done"})
        => metrics.Evaluations = SumSends(Calls)

\* C18: whatever outcomes the controller has observed, the effective cap lies in
\* 1..max-concurrent-requests, and every call that has acquired a permit and has not
\* returned still holds it.
C18_CapWithinBounds ==
    /\ controller.cap >= 1 /\ controller.cap <= cfg.MaxConcurrentRequests
    /\ \A c \in Calls : ~Done(c) /\ call[c].acquired = 1 => call[c].requestID \in held

C18_Witness ==
    /\ controller.cap = 1 /\ cfg.MaxConcurrentRequests > 1
    /\ metrics.Evaluations > 0
    /\ \E c \in Calls : call[c].pc = "sending" /\ call[c].requestID \in held

\* C19: with enable-dynamic-rate-limiting off the effective cap stays
\* max-concurrent-requests whatever outcomes are evaluated.
C19_FixedCapWhenDisabled ==
    ~cfg.EnableDynamicRateLimiting => controller.cap = cfg.MaxConcurrentRequests

C19_Witness ==
    /\ ~cfg.EnableDynamicRateLimiting /\ cfg.MaxConcurrentRequests > 1
    /\ controller.cap = cfg.MaxConcurrentRequests
    /\ \E c \in Calls : Done(c) /\ call[c].every = 429 /\ call[c].result.err = "APIError"
    /\ metrics.Evaluations > 0

\* C20: a retry-path call answered with a non-retryable status has ended at that one
\* send, without any wait, and returns the response with the decoded API error.
C20_NonRetryableEndsAtOnce ==
    \A c \in Calls : OnRetryPath(c) /\ IsNonRetryableStatusCode(call[c].every) =>
        /\ Done(c) /\ call[c].sends = 1
        /\ call[c].rateWaits = 0 /\ call[c].backoffs = 0
        /\ call[c].result = [resp |-> call[c].every, err |-> "APIError"]
        /\ call[c].released = 1

C20_Witness ==
    \E c \in Calls :
        /\ OnRetryPath(c) /\ Done(c) /\ call[c].every = 404 /\ call[c].sends = 1
        /\ call[c].result = [resp |-> 404, err |-> "APIError"]

\* C32: on the retry path every send after the first follows a rate-limit wait or a
\* backoff sleep of its own, and every such wait is longer than zero.
C32_WaitBeforeResend ==
    \A c \in Calls : OnRetryPath(c) =>
        /\ call[c].sends <= call[c].rateWaits + call[c].backoffs + 1
        /\ call[c].pc = "sending" => call[c].sends = call[c].rateWaits + call[c].backoffs + 1
        /\ call[c].lastWait.kind # "none" => call[c].lastWait.dur > 0

C32_Witness ==
    \E c \in Calls :
        /\ OnRetryPath(c) /\ call[c].pc = "sending" /\ call[c].sends = 3
        /\ call[c].rateWaits = 1 /\ call[c].backoffs = 1

\* C33 (as claimed): every send of a retry-path call transmits the body the first
\* send transmitted.
C33_SameBodyEverySend ==
    \A c \in Calls : OnRetryPath(c) /\ call[c].sends >= 1 =>
        call[c].lastSent = call[c].firstSent

\* C34 (as claimed): when a call has returned, every response body it obtained has
\* been closed or is the body of the response it returned.
C34_NoBodyLeftOpen ==
    \A c \in Calls : Done(c) =>
        call[c].bodies = call[c].closed + (IF call[c].result.resp # 0 THEN 1 ELSE 0)

\* C35 (as claimed): a call never returns a nil response together with a nil error.
C35_NeverNilNil ==
    \A c \in Calls : Done(c) => ~(call[c].result.resp = 0 /\ call[c].result.err = "none")

\* C31: every call that has entered DoRequest ends, whatever the server answers.
C31_EveryCallReturns ==
    \A c \in Calls : (call[c].pc # "idle") ~> Done(c)

C31_Witness ==
    \E c \in Calls :
        /\ Done(c) /\ OnRetryPath(c) /\ call[c].expired /\ call[c].every = 429
        /\ call[c].rateWaits >= 2

----------------------------------------------------------------------------
(* The helper functions called on their own: the arguments are drawn in the initial
   state and one action makes the call *)

RetryProbeBound == 6            \* retry counts are drawn from -2..RetryProbeBound
HugeRetry == 2000               \* and a retry count far beyond any cap

RetryCounts == (-2)..RetryProbeBound \cup {HugeRetry}
AllJitterPcts == (-50)..49
ProbeInstants == {0, 8000}

\* The client at rest: no call has been made
AtRest ==
    /\ cfg = LoadConfig
    /\ env = OneCaller
    /\ held = {}
    /\ nextID = 1
    /\ metrics = [TotalRequests |-> 0, Evaluations |-> 0]
    /\ controller = [cap |-> cfg.MaxConcurrentRequests, window |-> <<>>]
    /\ token = [id |-> 0, expiry |-> 0, inFlight |-> FALSE, calls |-> 0]
    /\ call = [c \in Calls |-> IdleCall]

BackoffArgs ==
    [fn : {"calculateBackoff"}, retry : RetryCounts, jitterPct : AllJitterPcts,
     done : {FALSE}, result : {0}]

\* The rate-limit headers a response may carry
HeaderSets ==
    [retryAfter : {Absent, Junk} \cup {IntHdr(n) : n \in (-1)..RetryAfterBound}
                    \cup {DateHdr(t) : t \in {1000, 9000}},
     remaining : {"", "0", "5"},
     reset : {Absent, Junk, IntHdr(0), IntHdr(9)}]

HeaderArgs ==
    [fn : {"parseRateLimitHeaders"}, headers : HeaderSets, done : {FALSE}, result : {0}]

InitRateHandler ==
    /\ now \in ProbeInstants
    /\ AtRest
    /\ probe \in BackoffArgs \cup HeaderArgs

\* calculateBackoff(retry) is called; rand.Float64() gives the jitter
CalculateBackoffCall ==
    /\ probe.fn = "calculateBackoff" /\ ~probe.done
    /\ probe' = [probe EXCEPT !.done = TRUE,
                              !.result = calculateBackoff(probe.retry, probe.jitterPct)]
    /\ UNCHANGED <<now, cfg, env, held, nextID, metrics, controller, token, call>>

\* parseRateLimitHeaders(resp, log) is called at instant now
ParseRateLimitHeadersCall ==
    /\ probe.fn = "parseRateLimitHeaders" /\ ~probe.done
    /\ probe' = [probe EXCEPT !.done = TRUE,
                              !.result = parseRateLimitHeaders(probe.headers, now)]
    /\ UNCHANGED <<now, cfg, env, held, nextID, metrics, controller, token, call>>

NextRateHandler ==
    \/ CalculateBackoffCall
    \/ ParseRateLimitHeadersCall

SpecRateHandler == InitRateHandler /\ [][NextRateHandler]_vars

\* C21: for every retry count (a negative one counts as 0, a huge one included) and
\* every jitter draw the delay lies in 0..maxDelay, and while 1.5 * baseDelay * 2^r is
\* below the cap it lies between 0.5 and 1.5 times baseDelay * 2^r.
C21_BackoffWithinBounds ==
    probe.fn = "calculateBackoff" /\ probe.done =>
        LET r == IF probe.retry < 0 THEN 0 ELSE probe.retry
            d == probe.result
        IN  /\ 0 <= d /\ d <= maxDelay
            /\ (r <= 16 /\ 3 * baseDelay * (2 ^ r) < 2 * maxDelay)
                  => /\ 2 * d >= baseDelay * (2 ^ r)
                     /\ 2 * d <= 3 * baseDelay * (2 ^ r)

C21_Witness ==
    /\ probe.fn = "calculateBackoff" /\ probe.done
    /\ probe.retry = HugeRetry /\ probe.jitterPct = -50 /\ probe.result = maxDelay

\* C22: an integer Retry-After decides alone; with Retry-After absent or neither an
\* integer nor a date, X-RateLimit-Remaining "0" with an integer X-RateLimit-Reset
\* gives (reset - now) + 5 s, and every other case gives 0.
C22_HeaderRulesInOrder ==
    probe.fn = "parseRateLimitHeaders" /\ probe.done =>
        LET h == probe.headers
            byReset == h.remaining = "0" /\ h.reset.kind = "int"
        IN  /\ h.retryAfter.kind = "int" => probe.result = h.retryAfter.val * 1000
            /\ h.retryAfter.kind \in {"absent", "junk"} /\ byReset
                  => probe.result = (h.reset.val * 1000 - now) + skewBuffer
            /\ h.retryAfter.kind \in {"absent", "junk"} /\ ~byReset => probe.result = 0

C22_Witness ==
    /\ probe.fn = "parseRateLimitHeaders" /\ probe.done
    /\ probe.headers.retryAfter = Junk /\ probe.headers.remaining = "0"
    /\ probe.headers.reset = IntHdr(9) /\ now = 0 /\ probe.result = 14000

\* C23 (as claimed): the wait parseRateLimitHeaders returns is never negative; a
\* Retry-After date in the past gives 0.
C23_WaitNeverNegative ==
    probe.fn = "parseRateLimitHeaders" /\ probe.done =>
        /\ probe.result >= 0
        /\ probe.headers.retryAfter.kind = "date" /\ probe.headers.retryAfter.val <= now
              => probe.result = 0

----------------------------------------------------------------------------
(* The error decoder: handleAPIErrorResponse *)

\* JSON values as encoding/json sees them; NotJSON is a body that does not parse
JStr(str) == [t |-> "string", s |-> str]
JNum == [t |-> "number"]
JInt(n) == [t |-> "number", n |-> n]
JNull == [t |-> "null"]
JArr == [t |-> "array"]
JObj(m) == [t |-> "object", members |-> m]
NotJSON == [t |-> "invalid"]

\* Error bodies: the bytes read and what they parse to
ErrorBodies ==
    { [text |-> "{error:{code:E42,message:quota exceeded}}",
       json |-> JObj([error |-> JObj([code |-> JStr("E42"),
                                      message |-> JStr("quota exceeded")])])],
      [text |-> "{message:bad input,detail:field x}",
       json |-> JObj([message |-> JStr("bad input"), detail |-> JStr("field x")])],
      [text |-> "{message:bad input}", json |-> JObj([message |-> JStr("bad input")])],
      [text |-> "{detail:field x}", json |-> JObj([detail |-> JStr("field x")])],
      [text |-> "{message:7}", json |-> JObj([message |-> JNum])],
      [text |-> "{message:}", json |-> JObj([message |-> JStr("")])],
      [text |-> "{status:failed}", json |-> JObj([status |-> JStr("failed")])],
      [text |-> "{statusCode:200,message:fine}",
       json |-> JObj([statusCode |-> JInt(200), message |-> JStr("fine")])],
      [text |-> "{type:Notice,raw:none}",
       json |-> JObj([type |-> JStr("Notice"), raw |-> JStr("none")])],
      [text |-> "null", json |-> JNull],
      [text |-> "[1]", json |-> JArr],
      [text |-> "upstream timed out", json |-> NotJSON],
      [text |-> "<html>Bad Gateway</html>", json |-> NotJSON],
      [text |-> "", json |-> NotJSON] }

\* A Content-Type header value as its ';'-separated parts
ContentTypes ==
    { <<"application/json">>, <<"application/json", "charset=utf-8">>, <<"text/html">>,
      <<"text/html", "charset=utf-8">>, <<"text/plain">>, <<>> }

ErrorStatuses == {400, 404, 500, 503}

ErrorResponses ==
    [StatusCode : ErrorStatuses, contentType : ContentTypes, body : ErrorBodies,
     readFails : BOOLEAN]

Contains(header, part) == \E i \in 1..Len(header) : header[i] = part
isJSONResponse(resp) == Contains(resp.contentType, "application/json")
isHTMLResponse(resp) == Contains(resp.contentType, "text/html")

\* json.Unmarshal(bodyBytes, &apiError): a key that names a field of APIError (the
\* match ignores case) fills that field, so "statusCode", "type", "message", "detail"
\* and "raw" fill StatusCode, Type, Message, Detail and Raw; a key with no field of
\* that name ("error") is skipped, a value of the wrong type is an error that leaves
\* the field alone, and the literal null sets the pointer apiError itself to nil
UnmarshalAPIError(j, e) ==
    LET has(key) == j.t = "object" /\ key \in DOMAIN j.members
        str(key, cur) == IF has(key) /\ j.members[key].t = "string"
                         THEN j.members[key].s ELSE cur
        int(key, cur) == IF has(key) /\ j.members[key].t = "number"
                         THEN j.members[key].n ELSE cur
        mismatch(key) == has(key) /\ j.members[key].t \notin {"string", "null"}
    IN  [err |-> j.t \in {"invalid", "array", "string", "number"}
                   \/ mismatch("message") \/ mismatch("detail")
                   \/ mismatch("type") \/ mismatch("raw")
                   \/ (has("statusCode")
                         /\ j.members["statusCode"].t \notin {"number", "null"}),
         isNil |-> j.t = "null",
         val |-> [e EXCEPT !.StatusCode = int("statusCode", e.StatusCode),
                           !.Type = str("type", e.Type),
                           !.Message = str("message", e.Message),
                           !.Detail = str("detail", e.Detail),
                           !.Raw = str("raw", e.Raw)]]

\* json.Unmarshal(bodyBytes, &genericErr) succeeds for an object and for null
UnmarshalMapOK(j) == j.t \in {"object", "null"}

updateFromGenericError(e, j) ==
    LET has(key) == j.t = "object" /\ key \in DOMAIN j.members
                    /\ j.members[key].t = "string"
    IN  [e EXCEPT !.Message = IF has("message") THEN j.members["message"].s ELSE @,
                  !.Detail = IF has("detail") THEN j.members["detail"].s ELSE @]

\* A nil pointer dereference at apiError.Message
Panicked ==
    [panicked |-> TRUE, StatusCode |-> 0, Type |-> "", Message |-> "", Detail |-> "",
     Raw |-> ""]

handleAPIErrorResponse(resp) ==
    LET apiError == [panicked |-> FALSE, StatusCode |-> resp.StatusCode,
                     Type |-> "APIError", Message |-> "An error occurred",
                     Detail |-> "", Raw |-> ""]
        u == UnmarshalAPIError(resp.body.json, apiError)
    IN  IF resp.readFails THEN apiError
        ELSE IF isJSONResponse(resp)
             THEN IF ~u.err /\ u.isNil THEN Panicked
                  ELSE IF ~u.err /\ u.val.Message # "" THEN u.val
                  ELSE IF UnmarshalMapOK(resp.body.json)
                       THEN updateFromGenericError(u.val, resp.body.json)
                       ELSE u.val
        ELSE IF isHTMLResponse(resp)
             THEN [apiError EXCEPT !.Raw = resp.body.text,
                                   !.Message = "HTML error page received"]
             ELSE [apiError EXCEPT !.Raw = resp.body.text,
                                   !.Message = "Non-JSON error response received"]

DecodeArgs ==
    [fn : {"handleAPIErrorResponse"}, resp : ErrorResponses, done : {FALSE},
     result : {Panicked}]

InitErrorDecoder ==
    /\ now = 0
    /\ AtRest
    /\ probe \in DecodeArgs

HandleAPIErrorResponseCall ==
    /\ probe.fn = "handleAPIErrorResponse" /\ ~probe.done
    /\ probe' = [probe EXCEPT !.done = TRUE, !.result = handleAPIErrorResponse(probe.resp)]
    /\ UNCHANGED <<now, cfg, env, held, nextID, metrics, controller, token, call>>

NextErrorDecoder == HandleAPIErrorResponseCall

SpecErrorDecoder == InitErrorDecoder /\ [][NextErrorDecoder]_vars

Decoded == probe.fn = "handleAPIErrorResponse" /\ probe.done

\* C24 (as claimed): with a JSON content type, a body {"error": {"code": c,
\* "message": m}} gives an error whose message is m, and any other JSON object gives
\* an error whose message and detail are the body's "message" and "detail" strings
\* when present.
C24_JSONErrorDecoded ==
    Decoded /\ ~probe.resp.readFails /\ isJSONResponse(probe.resp)
            /\ probe.resp.body.json.t = "object" =>
        LET m == probe.resp.body.json.members
            isStr(o, k) == k \in DOMAIN o /\ o[k].t = "string"
        IN  IF "error" \in DOMAIN m
            THEN isStr(m["error"].members, "message")
                    => probe.result.Message = m["error"].members["message"].s
            ELSE /\ isStr(m, "message") => probe.result.Message = m["message"].s
                 /\ isStr(m, "detail") => probe.result.Detail = m["detail"].s

\* C25 (as claimed): the decoder returns for every content type and body; text/html
\* gives "HTML error page received" with the raw body, any other non-JSON type gives
\* the raw body, a JSON type with a body that is not JSON gives the raw body, and a
\* failed read gives the status code alone.
C25_DecoderTotal ==
    Decoded =>
        LET r == probe.resp
            e == probe.result
        IN  /\ ~e.panicked
            /\ e.StatusCode = r.StatusCode
            /\ r.readFails => e.Raw = "" /\ e.Detail = ""
            /\ ~r.readFails /\ ~isJSONResponse(r) => e.Raw = r.body.text
            /\ ~r.readFails /\ ~isJSONResponse(r) /\ isHTMLResponse(r)
                  => e.Message = "HTML error page received"
            /\ ~r.readFails /\ isJSONResponse(r) /\ r.body.json.t = "invalid"
                  => e.Raw = r.body.text

\* C36 (as claimed): the error the decoder returns carries the status code of the
\* response it decoded, whatever the body holds.
C36_StatusCodeFromResponse ==
    Decoded /\ ~probe.result.panicked => probe.result.StatusCode = probe.resp.StatusCode

----------------------------------------------------------------------------
(* Configuration loading: LoadConfigFromFile and LoadConfigFromEnv *)

DefaultMaxRetryAttempts == 3
DefaultMaxConcurrentRequests == 5
DefaultTokenBufferPeriod == 300000     \* 5 * time.Minute, in ms
DefaultTotalRetryDuration == 300000    \* 5 * time.Minute, in ms
DefaultTimeout == 10000                \* 10 * time.Second, in ms

ConfigValueBound == 2           \* the positive count a source supplies

\* What a source holds for a field: nothing, a text that does not parse as the
\* field's type, or a text that parses to v
NotSet == [kind |-> "unset"]
Garbled == [kind |-> "junk"]
Given(v) == [kind |-> "value", v |-> v]

\* &ClientConfig{}: every field at its zero value
ZeroConfig ==
    [ClientID |-> "", ClientSecret |-> "", InstanceName |-> "", APIType |-> "",
     LogLevel |-> "", LogOutputFormat |-> "", LogConsoleSeparator |-> "",
     HideSensitiveData |-> FALSE, MaxRetryAttempts |-> 0,
     EnableDynamicRateLimiting |-> FALSE, MaxConcurrentRequests |-> 0,
     TokenRefreshBufferPeriod |-> 0, TotalRetryDuration |-> 0, CustomTimeout |-> 0]

RequiredFields == {"ClientID", "ClientSecret", "InstanceName", "APIType"}
StringFields == RequiredFields \cup {"LogLevel", "LogOutputFormat", "LogConsoleSeparator"}
IntFields == {"MaxRetryAttempts", "MaxConcurrentRequests"}
DurationFields == {"TokenRefreshBufferPeriod", "TotalRetryDuration", "CustomTimeout"}
BoolFields == {"HideSensitiveData", "EnableDynamicRateLimiting"}

\* The fields validateMandatoryConfiguration tests, in its order
MandatoryFields ==
    <<"ClientID", "ClientSecret", "InstanceName", "APIType", "LogLevel",
      "LogOutputFormat", "LogConsoleSeparator">>

validateMandatoryConfiguration(config) ==
    SelectSeq(MandatoryFields, LAMBDA f : config[f] = "")

setLoggerDefaultValues(config) ==
    [config EXCEPT !.LogConsoleSeparator = IF @ = "" THEN "," ELSE @]

setClientDefaultValues(config) ==
    [config EXCEPT
        !.MaxRetryAttempts = IF @ < 0 THEN DefaultMaxRetryAttempts ELSE @,
        !.MaxConcurrentRequests = IF @ <= 0 THEN DefaultMaxConcurrentRequests ELSE @,
        !.TokenRefreshBufferPeriod =
            IF @ < 0 THEN DefaultTokenBufferPeriod
            ELSE IF @ = 0 THEN DefaultTokenBufferPeriod ELSE @,
        !.TotalRetryDuration = IF @ <= 0 THEN DefaultTotalRetryDuration ELSE @,
        !.CustomTimeout = IF @ = 0 THEN DefaultTimeout ELSE @]

getEnvOrDefault(environ, key, defaultValue) ==
    IF environ[key].kind = "unset" THEN defaultValue ELSE environ[key]

\* strconv.FormatBool, strconv.Itoa and Duration.String give a text that parses back
FormatBool(b) == Given(b)
Itoa(n) == Given(n)
DurationString(d) == Given(d)

parseBool(value) == IF value.kind = "value" THEN value.v ELSE FALSE
parseInt(value, defaultVal) == IF value.kind = "value" THEN value.v ELSE defaultVal
parseDuration(value, defaultVal) == IF value.kind = "value" THEN value.v ELSE defaultVal

LoadFailed(why) == [ok |-> FALSE, error |-> why, missing |-> <<>>, config |-> ZeroConfig]

Validated(config, prefix) ==
    LET missing == validateMandatoryConfiguration(config)
    IN  [ok |-> missing = <<>>,
         error |-> IF missing = <<>> THEN "" ELSE prefix,
         missing |-> missing,
         config |-> config]

\* file.status tells whether os.Open and ReadLine succeed; file.fields is the JSON
\* object in the file, a Garbled member making json.Unmarshal fail
LoadConfigFromFile(file) ==
    IF file.status # "ok" THEN LoadFailed(file.status)
    ELSE IF \E f \in DOMAIN file.fields : file.fields[f].kind = "junk"
         THEN LoadFailed("unmarshal")
    ELSE LET config == [f \in DOMAIN ZeroConfig |->
                            IF file.fields[f].kind = "value" THEN file.fields[f].v
                            ELSE ZeroConfig[f]]
         IN  Validated(setClientDefaultValues(setLoggerDefaultValues(config)),
                       "configuration validation failed: mandatory configuration missing")

LoadConfigFromEnv(config, environ) ==
    LET text(f) == getEnvOrDefault(environ, f, Given(config[f])).v
        loaded ==
            [ClientID |-> text("ClientID"),
             ClientSecret |-> text("ClientSecret"),
             InstanceName |-> text("InstanceName"),
             APIType |-> text("APIType"),
             LogLevel |-> text("LogLevel"),
             LogOutputFormat |-> text("LogOutputFormat"),
             LogConsoleSeparator |-> text("LogConsoleSeparator"),
             HideSensitiveData |->
                 parseBool(getEnvOrDefault(environ, "HideSensitiveData",
                                           FormatBool(config.HideSensitiveData))),
             MaxRetryAttempts |->
                 parseInt(getEnvOrDefault(environ, "MaxRetryAttempts",
                                          Itoa(config.MaxRetryAttempts)),
                          DefaultMaxRetryAttempts),
             EnableDynamicRateLimiting |->
                 parseBool(getEnvOrDefault(environ, "EnableDynamicRateLimiting",
                                           FormatBool(config.EnableDynamicRateLimiting))),
             MaxConcurrentRequests |->
                 parseInt(getEnvOrDefault(environ, "MaxConcurrentRequests",
                                          Itoa(config.MaxConcurrentRequests)),
                          DefaultMaxConcurrentRequests),
             TokenRefreshBufferPeriod |->
                 parseDuration(getEnvOrDefault(environ, "TokenRefreshBufferPeriod",
                                   DurationString(config.TokenRefreshBufferPeriod)),
                               DefaultTokenBufferPeriod),
             TotalRetryDuration |->
                 parseDuration(getEnvOrDefault(environ, "TotalRetryDuration",
                                   DurationString(config.TotalRetryDuration)),
                               DefaultTotalRetryDuration),
             CustomTimeout |->
                 parseDuration(getEnvOrDefault(environ, "CustomTimeout",
                                   DurationString(config.CustomTimeout)),
                               DefaultTimeout)]
    IN  Validated(setClientDefaultValues(setLoggerDefaultValues(loaded)),
                  "mandatory configuration missing")

\* What a file or the environment may hold
IntTexts == {NotSet, Garbled, Given(-1), Given(0), Given(ConfigValueBound)}
DurationTexts == {NotSet, Garbled, Given(-5000), Given(0), Given(2000)}
BoolTexts == {NotSet, Garbled, Given(TRUE)}

\* Sources that differ in the texts present, and sources with every text present
\* that differ in the options
SourceFields ==
    { strs @@ [f \in IntFields \cup DurationFields \cup BoolFields |-> NotSet] :
        strs \in [StringFields -> {NotSet, Given("acme")}] }
    \cup
    { [f \in StringFields |-> Given("acme")] @@ ints @@ durs @@ bools :
        ints \in [IntFields -> IntTexts], durs \in [DurationFields -> DurationTexts],
        bools \in [BoolFields -> BoolTexts] }

FileStatuses == {"ok", "open failed", "read failed"}

NoLoad == LoadFailed("")

InitConfiguration ==
    /\ now = 0
    /\ AtRest
    /\ \E fields \in SourceFields :
          \/ \E st \in FileStatuses :
                probe = [fn |-> "LoadConfigFromFile", status |-> st, fields |-> fields,
                         done |-> FALSE, result |-> NoLoad]
          \/ probe = [fn |-> "LoadConfigFromEnv", status |-> "ok", fields |-> fields,
                      done |-> FALSE, result |-> NoLoad]

LoadConfigFromFileCall ==
    /\ probe.fn = "LoadConfigFromFile" /\ ~probe.done
    /\ probe' = [probe EXCEPT !.done = TRUE,
                    !.result = LoadConfigFromFile([status |-> probe.status,
                                                   fields |-> probe.fields])]
    /\ UNCHANGED <<now, cfg, env, held, nextID, metrics, controller, token, call>>

\* LoadConfigFromEnv(nil)
LoadConfigFromEnvCall ==
    /\ probe.fn = "LoadConfigFromEnv" /\ ~probe.done
    /\ probe' = [probe EXCEPT !.done = TRUE,
                              !.result = LoadConfigFromEnv(ZeroConfig, probe.fields)]
    /\ UNCHANGED <<now, cfg, env, held, nextID, metrics, controller, token, call>>

NextConfiguration ==
    \/ LoadConfigFromFileCall
    \/ LoadConfigFromEnvCall

SpecConfiguration == InitConfiguration /\ [][NextConfiguration]_vars

\* A load whose source could be read and decoded
LoadAttempted ==
    /\ probe.fn \in {"LoadConfigFromFile", "LoadConfigFromEnv"} /\ probe.done
    /\ probe.status = "ok"
    /\ probe.fn = "LoadConfigFromFile"
          => \A f \in DOMAIN probe.fields : probe.fields[f].kind # "junk"

\* C26 (as claimed): loading fails when one of client-id, client-secret, instance-name,
\* API-type is empty after the sources are applied, the error then naming each of them
\* that is missing, and succeeds when the four are present.
C26_RequiredFieldsDecide ==
    LoadAttempted =>
        LET absent == {f \in RequiredFields : probe.fields[f].kind = "unset"}
            named == {probe.result.missing[i] : i \in 1..Len(probe.result.missing)}
        IN  /\ probe.result.ok <=> absent = {}
            /\ absent \subseteq named

\* C27 (as claimed): a source that supplies only the four required fields loads, and
\* every other field has its documented default.
C27_DefaultsApplied ==
    LoadAttempted /\ (\A f \in DOMAIN probe.fields :
                            probe.fields[f].kind = "value" <=> f \in RequiredFields) =>
        /\ probe.result.ok
        /\ probe.result.config =
              [ClientID |-> "acme", ClientSecret |-> "acme", InstanceName |-> "acme",
               APIType |-> "acme", LogLevel |-> "info", LogOutputFormat |-> "json",
               LogConsoleSeparator |-> ",", HideSensitiveData |-> TRUE,
               MaxRetryAttempts |-> DefaultMaxRetryAttempts,
               EnableDynamicRateLimiting |-> DefaultEnableDynamicRateLimiting,
               MaxConcurrentRequests |-> DefaultMaxConcurrentRequests,
               TokenRefreshBufferPeriod |-> DefaultTokenBufferPeriod,
               TotalRetryDuration |-> DefaultTotalRetryDuration,
               CustomTimeout |-> DefaultTimeout]

\* C28 (as claimed): a configuration that loads has max-retry-attempts >= 0 and
\* max-concurrent-requests, token-refresh-buffer, total-retry-duration and timeout > 0.
C28_LoadedOptionsInRange ==
    probe.fn \in {"LoadConfigFromFile", "LoadConfigFromEnv"} /\ probe.done
        /\ probe.result.ok =>
        /\ probe.result.config.MaxRetryAttempts >= 0
        /\ probe.result.config.MaxConcurrentRequests > 0
        /\ probe.result.config.TokenRefreshBufferPeriod > 0
        /\ probe.result.config.TotalRetryDuration > 0
        /\ probe.result.config.CustomTimeout > 0

----------------------------------------------------------------------------
(* The API handler: GetContentTypeHeader and handleDeleteRequest *)

\* Paths as sequences of segments
HasPrefix(str, prefix) ==
    Len(prefix) <= Len(str) /\ SubSeq(str, 1, Len(prefix)) = prefix

PrefixKeys == {<<"api">>, <<"api", "files">>, <<"beta">>}
Endpoints ==
    {<<"api", "files", "1">>, <<"api", "users">>, <<"beta", "x">>, <<"other">>}

\* config.ContentType is a *string: <<>> is nil, <<s>> points to s
ContentTypePointers == {<<>>, <<"application/xml">>, <<"multipart/form-data">>}

\* The configuration maps: some of the keys, each with its content type
ConfigMaps ==
    UNION { [K -> ContentTypePointers] : K \in SUBSET PrefixKeys }

\* The orders in which range may visit the keys of a map
Orders(K) ==
    { o \in [1..Cardinality(K) -> K] :
        \A i, j \in 1..Cardinality(K) : i # j => o[i] # o[j] }

\* The loop returns at the first key it visits that is a prefix of the endpoint
GetContentTypeHeader(endpoint, configMap, order) ==
    LET hits == {i \in 1..Len(order) : HasPrefix(endpoint, order[i])}
    IN  IF hits = {} THEN "application/json"
        ELSE LET first == CHOOSE i \in hits : \A j \in hits : i <= j
                 config == configMap[order[first]]
             IN  IF config # <<>> THEN config[1] ELSE ""

DeleteStatuses == {100, 199, 200, 204, 299, 300, 302, 400, 404, 500}

handleDeleteRequestOKOnly(resp) ==
    [err |-> IF resp.StatusCode = 200 THEN "" ELSE "DELETE request failed",
     bodyRead |-> resp.bodyRead]

\* handleDeleteRequest(resp, log): nil for a success status, an error otherwise; the
\* body is not read
handleDeleteRequest(resp) ==
    [err |-> IF resp.StatusCode >= 200 /\ resp.StatusCode < 300
             THEN "" ELSE "DELETE request failed",
     bodyRead |-> resp.bodyRead]

InitAPIHandler ==
    /\ now = 0
    /\ AtRest
    /\ \/ \E e \in Endpoints, m \in ConfigMaps :
             probe = [fn |-> "GetContentTypeHeader", endpoint |-> e, configMap |-> m,
                      done |-> FALSE, result |-> ""]
       \/ \E st \in DeleteStatuses, o \in {"", "previous"} :
             probe = [fn |-> "handleDeleteRequest",
                      resp |-> [StatusCode |-> st, bodyRead |-> FALSE],
                      out |-> o, outBefore |-> o, done |-> FALSE, err |-> ""]

GetContentTypeHeaderCall ==
    /\ probe.fn = "GetContentTypeHeader" /\ ~probe.done
    /\ \E order \in Orders(DOMAIN probe.configMap) :
          probe' = [probe EXCEPT
                       !.done = TRUE,
                       !.result = GetContentTypeHeader(probe.endpoint, probe.configMap,
                                                       order)]
    /\ UNCHANGED <<now, cfg, env, held, nextID, metrics, controller, token, call>>

HandleDeleteRequestCall ==
    /\ probe.fn = "handleDeleteRequest" /\ ~probe.done
    /\ LET r == handleDeleteRequest(probe.resp)
       IN  probe' = [probe EXCEPT !.done = TRUE, !.err = r.err,
                                  !.resp.bodyRead = r.bodyRead]
    /\ UNCHANGED <<now, cfg, env, held, nextID, metrics, controller, token, call>>

NextAPIHandler ==
    \/ GetContentTypeHeaderCall
    \/ HandleDeleteRequestCall

SpecAPIHandler == InitAPIHandler /\ [][NextAPIHandler]_vars

\* C29 (as claimed): the content type is that of the longest configured prefix of the
\* endpoint, whatever the order of iteration; "" when that entry has no content
\* type; application/json when no prefix matches.
C29_LongestPrefixWins ==
    probe.fn = "GetContentTypeHeader" /\ probe.done =>
        LET matching == {k \in DOMAIN probe.configMap : HasPrefix(probe.endpoint, k)}
        IN  IF matching = {} THEN probe.result = "application/json"
            ELSE LET longest == CHOOSE k \in matching :
                                    \A other \in matching : Len(other) <= Len(k)
                     config == probe.configMap[longest]
                 IN  probe.result = IF config = <<>> THEN "" ELSE config[1]

\* C30: handleDeleteRequest returns no error exactly when the status is in the success
\* class, and reads no body and leaves out as it was.
C30_DeleteByStatusOnly ==
    probe.fn = "handleDeleteRequest" /\ probe.done =>
        /\ probe.err = "" <=> (probe.resp.StatusCode >= 200 /\ probe.resp.StatusCode < 300)
        /\ ~probe.resp.bodyRead
        /\ probe.out = probe.outBefore

C30_Witness ==
    /\ probe.fn = "handleDeleteRequest" /\ probe.done
    /\ probe.resp.StatusCode = 204 /\ probe.err = "" /\ probe.outBefore = "previous"

====
